---- MODULE Spec2Model ----
(***************************************************************************)
(* Model of the two code files of the documentation site:                  *)
(*   src/app/[[...mdxPath]]/page.jsx  (generateStaticParams,               *)
(*                                     generateMetadata, Wrapper, Page)    *)
(*   src/app/layout.jsx               (banner, navbar, footer, RootLayout) *)
(* The documentation framework (importPage, getPageMap, the route capture) *)
(* is the environment: it supplies the content and the page map and        *)
(* settles the promises the code awaits.                                    *)
(***************************************************************************)
EXTENDS Integers, Sequences, FiniteSets, TLC

(* ------------------------------ bounds -------------------------------- *)

\* number of render calls that may be in flight together
NumReq == 2

\* number of times the calendar year may change after module load
MaxYearTicks == 1

\* largest number a user of the useTimer hook passes to startTimer
MaxStart == 3

\* number of calls (startTimer, or changes of value and delay) a user of a
\* hook makes
MaxCalls == 2

\* number of callbacks a user of counterStore has at hand
NumCallbacks == 2

\* number of subscribe calls made on counterStore
MaxSubscribes == 3

\* number of increment and decrement calls made on counterStore
MaxChanges == 3

\* number of renders of the render counter samples that are followed
MaxRenders == 6

\* number of times a fetch sample is mounted
MaxMounts == 2

Reqs == 1..NumReq

(* --------------------------- JavaScript values ------------------------ *)

Undefined == [t |-> "undefined"]

Str(s) == [t |-> "string", s |-> s]

Arr(a) == [t |-> "array", a |-> a]

\* "no value": the call has not returned / has not thrown
NoValue == [t |-> "none"]

\* String(v), as a template literal applies it to an interpolated value
JsString(v) ==
  CASE v.t = "string" -> v.s
    [] v.t = "undefined" -> "undefined"
    [] OTHER -> "[object Object]"

(* ------------------------ framework-owned content --------------------- *)

\* routes of two of the content files: content/useid.mdx and
\* content/what-are-hooks.mdx
Routes == {<<"useid">>, <<"what-are-hooks">>}

\* URL paths a visitor may request: the site root, the two routes, and a
\* path that never has a content file
UrlPaths == {<<>>, <<"useid">>, <<"what-are-hooks">>, <<"nope">>}

\* the title the framework derives for a content file: its first heading
TitleOf(route) == IF route = <<"useid">> THEN "useId" ELSE "What Are Hooks?"

\* the table of contents the framework extracts from a content file: its
\* second- and third-level headings
TocOf(route) ==
  IF route = <<"useid">>
    THEN << [depth |-> 2, value |-> "What about UUID?"],
            [depth |-> 2, value |-> "Syntax"],
            [depth |-> 2, value |-> "Examples"],
            [depth |-> 3, value |-> "Labeling a form field"],
            [depth |-> 3, value |-> "Example with multiple components"],
            [depth |-> 3, value |-> "Improving accessibility"] >>
    ELSE << [depth |-> 3, value |-> "Example of a class component"],
            [depth |-> 3, value |-> "Advice on class components"] >>

\* a compiled content file: { default, toc, metadata }
PageModule(route, desc) ==
  [ default  |-> [component |-> "MDXContent", file |-> route],
    toc      |-> TocOf(route),
    metadata |-> [title |-> Str(TitleOf(route)), description |-> desc] ]

\* descriptions a content file may export: none, or a front-matter string
Descriptions == {Undefined, Str("An introduction")}

\* every content directory the framework may present to this code: any of
\* the content files may be there; what-are-hooks.mdx has no front matter,
\* useid.mdx is taken both without and with a front-matter description
Contents ==
  { d \in UNION { [rs -> Descriptions] : rs \in SUBSET Routes } :
      <<"what-are-hooks">> \in DOMAIN d => d[<<"what-are-hooks">>] = Undefined }

ContentOf(descs) == [route \in DOMAIN descs |-> PageModule(route, descs[route])]

\* the page map: the ordered listing of the available routes
PageMapItem(c, route) ==
  IF route \in DOMAIN c
    THEN << [route |-> route, title |-> c[route].metadata.title] >>
    ELSE <<>>

PageMapOf(c) ==
  PageMapItem(c, <<"useid">>) \o PageMapItem(c, <<"what-are-hooks">>)

NotFound == [t |-> "error", digest |-> "NEXT_HTTP_ERROR_FALLBACK;404"]

PageMapFailure == [t |-> "error", digest |-> "page-map"]

VARIABLES
  content,       \* route -> compiled content file (framework-owned)
  pageMap,       \* the page map (framework-owned)
  clockYear,     \* the calendar year, counted from the year of module load
  footer,        \* layout.jsx module constant, evaluated at load
  kind,          \* per call: which exported function runs
  pc,            \* per call: position in the async function
  props,         \* per call: the props argument
  params,        \* per call: the local `params`
  out,           \* per call: the value the returned promise fulfilled with
  err,           \* per call: the reason the returned promise rejected with
  importCalls,   \* per call: arguments of its importPage calls
  importResults, \* per call: how each of those calls settled
  pageMapCalls   \* per call: number of getPageMap calls

\* state of the code samples of the content pages, run in a browser
VARIABLES
  mounted,        \* which sample component is mounted, "none" before
  seconds,        \* timer samples: the state `seconds`
  timeout,        \* timer samples: `timeout` held by the last effect's cleanup
  value,          \* useDebounce sample: the argument `value`
  delay,          \* useDebounce sample: the argument `delay`
  debouncedValue, \* useDebounce sample: the state `debouncedValue`
  ref,            \* useDebounce sample: ref.current
  timeouts,       \* the browser's pending timeouts: id and what the callback sets
  nextTimeoutId,  \* the id the next setTimeout returns
  updates,        \* state updates queued for the next render
  calls,          \* number of calls made by the user of a hook so far
  lastStart,      \* useTimer sample: the last startTimer call (history)
  observed        \* useTimer sample: values rendered since that call (history)

\* state of the later samples: the counter store, the render counters and
\* the fetch samples
VARIABLES
  count,          \* counterStore and render counters: `count`
  listeners,      \* counterStore: the Set `listeners`, in insertion order
  subscriptions,  \* counterStore: the subscribe calls made so far (history)
  invoked,        \* counterStore: callbacks the last change invoked (history)
  increments,     \* counterStore: number of increment calls (history)
  decrements,     \* counterStore: number of decrement calls (history)
  name,           \* render counters: the state `name`
  renders,        \* render counters: number of completed renders (history)
  data,           \* fetch samples: the state `countries` / `data`
  requests,       \* fetch samples: the GET requests issued, each with its stage
  mounts          \* fetch samples: number of times the component was mounted

siteVars == << content, pageMap, clockYear, footer, kind, pc, props, params,
               out, err, importCalls, importResults, pageMapCalls >>

storeVars == << count, listeners, subscriptions, invoked, increments,
                decrements >>

renderVars == << name, renders >>

fetchVars == << data, requests, mounts >>

sampleVars == << mounted, seconds, timeout, value, delay, debouncedValue, ref,
                 timeouts, nextTimeoutId, updates, calls, lastStart, observed,
                 storeVars, renderVars, fetchVars >>

vars == << content, pageMap, clockYear, footer, kind, pc, props, params,
           out, err, importCalls, importResults, pageMapCalls,
           mounted, seconds, timeout, value, delay, debouncedValue, ref,
           timeouts, nextTimeoutId, updates, calls, lastStart, observed,
           count, listeners, subscriptions, invoked, increments, decrements,
           name, renders, data, requests, mounts >>

frameworkVars == << content, pageMap >>

(* ----------------------- the framework's functions -------------------- *)

\* the optional catch-all segment [[...mdxPath]]: the site root captures
\* nothing, any other URL captures its list of segments
RouteCapture(url) ==
  [mdxPath |-> IF url = <<>> THEN Undefined ELSE Arr(url)]

\* props of a page call: params is a promise of the captured segments
PropsOf(p) == [params |-> [t |-> "promise", value |-> p]]

\* importPage(pathSegments = []): the compiled content file of the route,
\* or the framework's not-found error when no content file matches
ImportPage(arg) ==
  LET segs == IF arg.t = "undefined" THEN <<>> ELSE arg.a
  IN  IF segs \in DOMAIN content
        THEN [ok |-> TRUE, value |-> content[segs]]
        ELSE [ok |-> FALSE, value |-> NotFound]

(* ------------------------------ page.jsx ------------------------------ *)

\* generateStaticParamsFor("mdxPath"): one params object per page-map route
generateStaticParams ==
  { [mdxPath |-> Arr(pageMap[i].route)] : i \in 1..Len(pageMap) }

SiteSuffix == " | A Comprehensive Look at All React Hooks"

\* mutation: the title carries the year in which the page is rendered
TitleTemplate_WithRenderYear(metadata) ==
  JsString(metadata.title) \o SiteSuffix
    \o (IF clockYear = 0 THEN "" ELSE " (updated)")

\* mutation: the site name is put in front of the page's title
TitleTemplate_SuffixFirst(metadata) ==
  "A Comprehensive Look at All React Hooks | " \o JsString(metadata.title)

\* `${metadata.title} | A Comprehensive Look at All React Hooks`
TitleTemplate(metadata) == JsString(metadata.title) \o SiteSuffix

\* mutation: the description is interpolated like the title
DescriptionOf_Interpolated(metadata) == Str(JsString(metadata.description))

\* mutation: a missing description is replaced by an empty string
DescriptionOf_Defaulted(metadata) ==
  IF metadata.description.t = "undefined" THEN Str("") ELSE metadata.description

\* description: metadata.description
DescriptionOf(metadata) == metadata.description

\* the object generateMetadata returns
MetadataResult(metadata) ==
  [ t |-> "object",
    title |-> Str(TitleTemplate(metadata)),
    description |-> DescriptionOf(metadata) ]

\* mutation: the site root is special-cased to an empty segment list
ImportArg_RootRewritten(ps) ==
  IF ps.mdxPath.t = "undefined" THEN Arr(<<>>) ELSE ps.mdxPath

\* importPage(params.mdxPath): the argument handed to importPage
ImportArg(ps) == ps.mdxPath

\* getMDXComponents().wrapper, taken once at module load
Wrapper == [component |-> "wrapper"]

\* <MDXContent {...props} params={params} />
ContentElement(MDXContent, pr, ps) ==
  [ t |-> "element", type |-> MDXContent,
    props |-> [pr EXCEPT !.params = ps] ]

\* mutation: the metadata prop is not handed to the Wrapper
WrapperElement_NoMetadata(result, pr, ps) ==
  [ t |-> "element", type |-> Wrapper,
    toc |-> result.toc,
    metadata |-> Undefined,
    children |-> ContentElement(result.default, pr, ps) ]

\* <Wrapper toc={toc} metadata={metadata}> ... </Wrapper>
WrapperElement(result, pr, ps) ==
  [ t |-> "element", type |-> Wrapper,
    toc |-> result.toc,
    metadata |-> result.metadata,
    children |-> ContentElement(result.default, pr, ps) ]

(* ----------------------------- layout.jsx ----------------------------- *)

banner ==
  [ t |-> "element", type |-> "Banner", storageKey |-> "1234567890",
    children |-> "Get the offical eBook" ]

navbar ==
  [ t |-> "element", type |-> "Navbar",
    logo |-> "A Comprehensive Look At All React Hooks" ]

\* <Footer>MIT {new Date().getFullYear()} (c) Thomas Sankara</Footer>
FooterElement(year) ==
  [ t |-> "element", type |-> "Footer", year |-> year,
    owner |-> "Thomas Sankara" ]

DocsRepositoryBase ==
  "https://github.com/sankthomas/a-comprehensive-look-at-all-react-hooks"

\* mutation: the footer element is built in each render
LayoutElement_FooterPerRender(children, pm) ==
  [ t |-> "element", type |-> "Layout",
    banner |-> banner,
    navbar |-> navbar,
    pageMap |-> pm,
    docsRepositoryBase |-> DocsRepositoryBase,
    footer |-> FooterElement(clockYear),
    children |-> children ]

\* mutation: the banner is only shown around a content page
LayoutElement_BannerNeedsChildren(children, pm) ==
  [ t |-> "element", type |-> "Layout",
    banner |-> IF children.t = "undefined" THEN Undefined ELSE banner,
    navbar |-> navbar,
    pageMap |-> pm,
    docsRepositoryBase |-> DocsRepositoryBase,
    footer |-> footer,
    children |-> children ]

\* <Layout banner navbar pageMap docsRepositoryBase footer>{children}</Layout>
LayoutElement(children, pm) ==
  [ t |-> "element", type |-> "Layout",
    banner |-> banner,
    navbar |-> navbar,
    pageMap |-> pm,
    docsRepositoryBase |-> DocsRepositoryBase,
    footer |-> footer,
    children |-> children ]

\* mutation: children are rendered beside the Layout, not inside it
LayoutDocument_ChildrenBesideLayout(children, pm) ==
  [ t |-> "element", type |-> "html", lang |-> "en", dir |-> "ltr",
    body |-> [ t |-> "element", type |-> "body",
               className |-> "--font-geist-sans --font-geist-mono antialiased",
               children |-> LayoutElement(Undefined, pm),
               after |-> children ] ]

\* <html lang="en" dir="ltr"><body className=...> ... </body></html>
LayoutDocument(children, pm) ==
  [ t |-> "element", type |-> "html", lang |-> "en", dir |-> "ltr",
    body |-> [ t |-> "element", type |-> "body",
               className |-> "--font-geist-sans --font-geist-mono antialiased",
               children |-> LayoutElement(children, pm) ] ]

\* values the framework hands to RootLayout as children: nothing, or the
\* element a Page call produced for one of the content files
ChildrenValues ==
  {Undefined} \cup
  { WrapperElement(content[k], PropsOf([mdxPath |-> Arr(k)]), [mdxPath |-> Arr(k)])
      : k \in DOMAIN content }

(* ------------------------------- Init --------------------------------- *)

\* no code sample is running
SamplesUnmounted ==
  /\ mounted = "none"
  /\ seconds = Undefined
  /\ timeout = 0
  /\ value = ""
  /\ delay = 0
  /\ debouncedValue = ""
  /\ ref = 0
  /\ timeouts = {}
  /\ nextTimeoutId = 1
  /\ updates = <<>>
  /\ calls = 0
  /\ lastStart = NoValue
  /\ observed = <<>>
  /\ count = 0
  /\ listeners = <<>>
  /\ subscriptions = <<>>
  /\ invoked = NoValue
  /\ increments = 0
  /\ decrements = 0
  /\ name = ""
  /\ renders = 0
  /\ data = Undefined
  /\ requests = <<>>
  /\ mounts = 0

\* the site's modules are loaded over the content directory descs
SiteLoaded(descs) ==
  /\ content = ContentOf(descs)
  /\ pageMap = PageMapOf(ContentOf(descs))
  /\ clockYear = 0
  /\ footer = FooterElement(0)
  /\ kind = [r \in Reqs |-> "none"]
  /\ pc = [r \in Reqs |-> "idle"]
  /\ props = [r \in Reqs |-> NoValue]
  /\ params = [r \in Reqs |-> NoValue]
  /\ out = [r \in Reqs |-> NoValue]
  /\ err = [r \in Reqs |-> NoValue]
  /\ importCalls = [r \in Reqs |-> <<>>]
  /\ importResults = [r \in Reqs |-> <<>>]
  /\ pageMapCalls = [r \in Reqs |-> 0]

Init ==
  /\ \E descs \in Contents : SiteLoaded(descs)
  /\ SamplesUnmounted

\* params objects a page call may receive: captured from a URL at request
\* time, or enumerated by generateStaticParams at build time
PageParams == { RouteCapture(u) : u \in UrlPaths } \cup generateStaticParams

Last(seq) == seq[Len(seq)]

pageVars == << props, params, out, err, importCalls, importResults >>

(* ---------------------- generateMetadata(props) ----------------------- *)

\* the framework calls generateMetadata with the props of a route
GenerateMetadataCall(r) ==
  /\ pc[r] = "idle"
  /\ \E p \in PageParams : props' = [props EXCEPT ![r] = PropsOf(p)]
  /\ kind' = [kind EXCEPT ![r] = "generateMetadata"]
  /\ pc' = [pc EXCEPT ![r] = "awaitParams"]
  /\ UNCHANGED << sampleVars, frameworkVars, clockYear, footer, params, out, err,
                  importCalls, importResults, pageMapCalls >>

\* mutation: generateMetadata calls importPage() without the path
GenerateMetadataParams_NoPath(r) ==
  /\ kind[r] = "generateMetadata" /\ pc[r] = "awaitParams"
  /\ params' = [params EXCEPT ![r] = props[r].params.value]
  /\ importCalls' = [importCalls EXCEPT ![r] = Append(@, Undefined)]
  /\ pc' = [pc EXCEPT ![r] = "awaitImport"]
  /\ UNCHANGED << sampleVars, frameworkVars, clockYear, footer, kind, props, out, err,
                  importResults, pageMapCalls >>

\* const params = await props.params; importPage(params.mdxPath) is called
GenerateMetadataParams(r) ==
  /\ kind[r] = "generateMetadata" /\ pc[r] = "awaitParams"
  /\ params' = [params EXCEPT ![r] = props[r].params.value]
  /\ importCalls' = [importCalls EXCEPT
                       ![r] = Append(@, ImportArg(props[r].params.value))]
  /\ pc' = [pc EXCEPT ![r] = "awaitImport"]
  /\ UNCHANGED << sampleVars, frameworkVars, clockYear, footer, kind, props, out, err,
                  importResults, pageMapCalls >>

\* mutation: the title is written back into the content's metadata object
GenerateMetadataFulfil_WritesMetadata(r) ==
  /\ kind[r] = "generateMetadata" /\ pc[r] = "awaitImport"
  /\ LET arg == Last(importCalls[r])
         res == ImportPage(arg)
         route == IF arg.t = "undefined" THEN <<>> ELSE arg.a
     IN  /\ res.ok
         /\ importResults' = [importResults EXCEPT ![r] = Append(@, res)]
         /\ out' = [out EXCEPT ![r] = MetadataResult(res.value.metadata)]
         /\ content' = [content EXCEPT
                          ![route].metadata.title =
                             Str(TitleTemplate(res.value.metadata))]
  /\ pc' = [pc EXCEPT ![r] = "returned"]
  /\ UNCHANGED << sampleVars, pageMap, clockYear, footer, kind, props, params, err,
                  importCalls, pageMapCalls >>

\* importPage fulfils: const { metadata } = ...; return { title, description }
GenerateMetadataFulfil(r) ==
  /\ kind[r] = "generateMetadata" /\ pc[r] = "awaitImport"
  /\ LET res == ImportPage(Last(importCalls[r]))
     IN  /\ res.ok
         /\ importResults' = [importResults EXCEPT ![r] = Append(@, res)]
         /\ out' = [out EXCEPT ![r] = MetadataResult(res.value.metadata)]
  /\ pc' = [pc EXCEPT ![r] = "returned"]
  /\ UNCHANGED << sampleVars, frameworkVars, clockYear, footer, kind, props, params, err,
                  importCalls, pageMapCalls >>

\* mutation: a failed importPage is tried a second time before giving up
GenerateMetadataReject_RetryOnce(r) ==
  /\ kind[r] = "generateMetadata" /\ pc[r] = "awaitImport"
  /\ LET res == ImportPage(Last(importCalls[r]))
     IN  /\ ~res.ok
         /\ importResults' = [importResults EXCEPT ![r] = Append(@, res)]
         /\ IF Len(importCalls[r]) < 2
              THEN /\ importCalls' = [importCalls EXCEPT
                                       ![r] = Append(@, Last(importCalls[r]))]
                   /\ UNCHANGED << err, pc >>
              ELSE /\ err' = [err EXCEPT ![r] = res.value]
                   /\ pc' = [pc EXCEPT ![r] = "rejected"]
                   /\ UNCHANGED importCalls
  /\ UNCHANGED << sampleVars, frameworkVars, clockYear, footer, kind, props, params, out,
                  pageMapCalls >>

\* importPage rejects: nothing catches it, the async function rejects with it
GenerateMetadataReject(r) ==
  /\ kind[r] = "generateMetadata" /\ pc[r] = "awaitImport"
  /\ LET res == ImportPage(Last(importCalls[r]))
     IN  /\ ~res.ok
         /\ importResults' = [importResults EXCEPT ![r] = Append(@, res)]
         /\ err' = [err EXCEPT ![r] = res.value]
  /\ pc' = [pc EXCEPT ![r] = "rejected"]
  /\ UNCHANGED << sampleVars, frameworkVars, clockYear, footer, kind, props, params, out,
                  importCalls, pageMapCalls >>

(* ------------------------------ Page(props) --------------------------- *)

\* the framework calls Page with the props of a route
PageCall(r) ==
  /\ pc[r] = "idle"
  /\ \E p \in PageParams : props' = [props EXCEPT ![r] = PropsOf(p)]
  /\ kind' = [kind EXCEPT ![r] = "Page"]
  /\ pc' = [pc EXCEPT ![r] = "awaitParams"]
  /\ UNCHANGED << sampleVars, frameworkVars, clockYear, footer, params, out, err,
                  importCalls, importResults, pageMapCalls >>

\* mutation: `params` is one module-level variable shared by all calls
PageParamsResolved_SharedParams(r) ==
  /\ kind[r] = "Page" /\ pc[r] = "awaitParams"
  /\ params' = [q \in Reqs |-> props[r].params.value]
  /\ importCalls' = [importCalls EXCEPT
                       ![r] = Append(@, ImportArg(props[r].params.value))]
  /\ pc' = [pc EXCEPT ![r] = "awaitImport"]
  /\ UNCHANGED << sampleVars, frameworkVars, clockYear, footer, kind, props, out, err,
                  importResults, pageMapCalls >>

\* const params = await props.params; importPage(params.mdxPath) is called
PageParamsResolved(r) ==
  /\ kind[r] = "Page" /\ pc[r] = "awaitParams"
  /\ params' = [params EXCEPT ![r] = props[r].params.value]
  /\ importCalls' = [importCalls EXCEPT
                       ![r] = Append(@, ImportArg(props[r].params.value))]
  /\ pc' = [pc EXCEPT ![r] = "awaitImport"]
  /\ UNCHANGED << sampleVars, frameworkVars, clockYear, footer, kind, props, out, err,
                  importResults, pageMapCalls >>

\* mutation: the result of another call's importPage is reused when there
\* is one (a module-level cache that ignores the path)
PageFulfil_ReusedResult(r) ==
  /\ kind[r] = "Page" /\ pc[r] = "awaitImport"
  /\ LET res == ImportPage(Last(importCalls[r]))
         others == { q \in Reqs \ {r} :
                       Len(importResults[q]) > 0 /\ Last(importResults[q]).ok }
         used == IF others = {} THEN res.value
                 ELSE Last(importResults[CHOOSE q \in others : TRUE]).value
     IN  /\ res.ok
         /\ importResults' = [importResults EXCEPT ![r] = Append(@, res)]
         /\ out' = [out EXCEPT
                      ![r] = WrapperElement(used, props[r], params[r])]
  /\ pc' = [pc EXCEPT ![r] = "returned"]
  /\ UNCHANGED << sampleVars, frameworkVars, clockYear, footer, kind, props, params, err,
                  importCalls, pageMapCalls >>

\* importPage fulfils: const result = ...; the Wrapper element is returned
PageFulfil(r) ==
  /\ kind[r] = "Page" /\ pc[r] = "awaitImport"
  /\ LET res == ImportPage(Last(importCalls[r]))
     IN  /\ res.ok
         /\ importResults' = [importResults EXCEPT ![r] = Append(@, res)]
         /\ out' = [out EXCEPT
                      ![r] = WrapperElement(res.value, props[r], params[r])]
  /\ pc' = [pc EXCEPT ![r] = "returned"]
  /\ UNCHANGED << sampleVars, frameworkVars, clockYear, footer, kind, props, params, err,
                  importCalls, pageMapCalls >>

\* mutation: a missing page is caught and rendered as an empty fallback page
PageReject_Fallback(r) ==
  /\ kind[r] = "Page" /\ pc[r] = "awaitImport"
  /\ LET res == ImportPage(Last(importCalls[r]))
     IN  /\ ~res.ok
         /\ importResults' = [importResults EXCEPT ![r] = Append(@, res)]
         /\ out' = [out EXCEPT
                      ![r] = WrapperElement(PageModule(<<"what-are-hooks">>, Undefined),
                                            props[r], params[r])]
  /\ pc' = [pc EXCEPT ![r] = "returned"]
  /\ UNCHANGED << sampleVars, frameworkVars, clockYear, footer, kind, props, params, err,
                  importCalls, pageMapCalls >>

\* importPage rejects: nothing catches it, the async function rejects with it
PageReject(r) ==
  /\ kind[r] = "Page" /\ pc[r] = "awaitImport"
  /\ LET res == ImportPage(Last(importCalls[r]))
     IN  /\ ~res.ok
         /\ importResults' = [importResults EXCEPT ![r] = Append(@, res)]
         /\ err' = [err EXCEPT ![r] = res.value]
  /\ pc' = [pc EXCEPT ![r] = "rejected"]
  /\ UNCHANGED << sampleVars, frameworkVars, clockYear, footer, kind, props, params, out,
                  importCalls, pageMapCalls >>

(* ------------------------ RootLayout({ children }) -------------------- *)

\* the framework calls RootLayout; evaluating the JSX calls getPageMap()
\* and suspends on its promise
RootLayoutCall(r) ==
  /\ pc[r] = "idle"
  /\ \E c \in ChildrenValues : props' = [props EXCEPT ![r] = [children |-> c]]
  /\ kind' = [kind EXCEPT ![r] = "RootLayout"]
  /\ pageMapCalls' = [pageMapCalls EXCEPT ![r] = @ + 1]
  /\ pc' = [pc EXCEPT ![r] = "awaitPageMap"]
  /\ UNCHANGED << sampleVars, frameworkVars, clockYear, footer, params, out, err,
                  importCalls, importResults >>

\* getPageMap fulfils: the document is composed and returned
RootLayoutFulfil(r) ==
  /\ kind[r] = "RootLayout" /\ pc[r] = "awaitPageMap"
  /\ out' = [out EXCEPT ![r] = LayoutDocument(props[r].children, pageMap)]
  /\ pc' = [pc EXCEPT ![r] = "returned"]
  /\ UNCHANGED << sampleVars, frameworkVars, clockYear, footer, kind, props, params, err,
                  importCalls, importResults, pageMapCalls >>

\* mutation: a failed getPageMap is tried a second time before giving up
RootLayoutReject_RetryOnce(r) ==
  /\ kind[r] = "RootLayout" /\ pc[r] = "awaitPageMap"
  /\ IF pageMapCalls[r] < 2
       THEN /\ pageMapCalls' = [pageMapCalls EXCEPT ![r] = @ + 1]
            /\ UNCHANGED << err, pc >>
       ELSE /\ err' = [err EXCEPT ![r] = PageMapFailure]
            /\ pc' = [pc EXCEPT ![r] = "rejected"]
            /\ UNCHANGED pageMapCalls
  /\ UNCHANGED << sampleVars, frameworkVars, clockYear, footer, kind, props, params, out,
                  importCalls, importResults >>

\* getPageMap rejects: nothing catches it, the async function rejects with it
RootLayoutReject(r) ==
  /\ kind[r] = "RootLayout" /\ pc[r] = "awaitPageMap"
  /\ err' = [err EXCEPT ![r] = PageMapFailure]
  /\ pc' = [pc EXCEPT ![r] = "rejected"]
  /\ UNCHANGED << sampleVars, frameworkVars, clockYear, footer, kind, props, params, out,
                  importCalls, importResults, pageMapCalls >>

(* ------------------------------ the clock ----------------------------- *)

\* the calendar year changes while the server keeps running
YearTick ==
  /\ clockYear < MaxYearTicks
  /\ clockYear' = clockYear + 1
  /\ UNCHANGED << sampleVars, frameworkVars, footer, kind, pc, pageVars, pageMapCalls >>

Next ==
  \/ \E r \in Reqs : GenerateMetadataCall(r)
  \/ \E r \in Reqs : GenerateMetadataParams(r)
  \/ \E r \in Reqs : GenerateMetadataFulfil(r)
  \/ \E r \in Reqs : GenerateMetadataReject(r)
  \/ \E r \in Reqs : PageCall(r)
  \/ \E r \in Reqs : PageParamsResolved(r)
  \/ \E r \in Reqs : PageFulfil(r)
  \/ \E r \in Reqs : PageReject(r)
  \/ \E r \in Reqs : RootLayoutCall(r)
  \/ \E r \in Reqs : RootLayoutFulfil(r)
  \/ \E r \in Reqs : RootLayoutReject(r)
  \/ YearTick

Spec == Init /\ [][Next]_vars

(* ============================ properties ============================== *)

PageKinds == {"generateMetadata", "Page"}

Finished(r) == pc[r] \in {"returned", "rejected"}

\* the path segments the URL of call r captured (absent for the site root)
CapturedPath(r) == props[r].params.value.mdxPath

\* the route whose content file call r asks for
RequestedRoute(r) ==
  IF CapturedPath(r).t = "undefined" THEN <<>> ELSE CapturedPath(r).a

\* the content file of the route call r asks for exists
Registered(r) == RequestedRoute(r) \in DOMAIN content

\* C1: whenever generateMetadata returns, the returned title is the content's
\* own metadata.title immediately followed by the fixed site suffix: the
\* title is a prefix, the suffix is the rest, and nothing else is in it.
C1_TitleIsOwnTitleThenSuffix ==
  \A r \in Reqs :
    (kind[r] = "generateMetadata" /\ pc[r] = "returned") =>
      LET own == content[RequestedRoute(r)].metadata.title.s
          got == out[r].title
      IN  /\ got.t = "string"
          /\ Len(got.s) = Len(own) + Len(" | A Comprehensive Look at All React Hooks")
          /\ SubSeq(got.s, 1, Len(own)) = own
          /\ SubSeq(got.s, Len(own) + 1, Len(got.s))
               = " | A Comprehensive Look at All React Hooks"

C1_Witness ==
  \E r \in Reqs :
    /\ kind[r] = "generateMetadata" /\ pc[r] = "returned"
    /\ out[r].title = Str("useId | A Comprehensive Look at All React Hooks")

\* C2: whenever generateMetadata returns, the returned description is the
\* very value of the content's metadata.description: the same string when
\* there is one, and undefined when the content file exports none.
C2_DescriptionPassedThrough ==
  \A r \in Reqs :
    (kind[r] = "generateMetadata" /\ pc[r] = "returned") =>
      out[r].description = content[RequestedRoute(r)].metadata.description

C2_Witness ==
  \E r, q \in Reqs :
    /\ kind[r] = "generateMetadata" /\ pc[r] = "returned"
    /\ kind[q] = "generateMetadata" /\ pc[q] = "returned"
    /\ out[r].description = Undefined
    /\ out[q].description = Str("An introduction")

\* C3: every document RootLayout returns holds the banner, the navbar and
\* the footer in its Layout, whether children is a content page or nothing.
C3_ChromeAlwaysRendered ==
  \A r \in Reqs :
    (kind[r] = "RootLayout" /\ pc[r] = "returned") =>
      LET layout == out[r].body.children
      IN  /\ out[r].type = "html"
          /\ layout.type = "Layout"
          /\ layout.banner.t = "element" /\ layout.banner.type = "Banner"
          /\ layout.navbar.t = "element" /\ layout.navbar.type = "Navbar"
          /\ layout.footer.t = "element" /\ layout.footer.type = "Footer"

C3_Witness ==
  \E r, q \in Reqs :
    /\ kind[r] = "RootLayout" /\ pc[r] = "returned"
    /\ kind[q] = "RootLayout" /\ pc[q] = "returned"
    /\ props[r].children = Undefined
    /\ props[q].children.t = "element"

\* C4: a Page call for a path that generateStaticParams lists (a path of the
\* page map) never rejects, and what it returns is an element that carries
\* the content's metadata with its non-empty title.
C4_RegisteredPathRendersTitle ==
  \A r \in Reqs :
    (kind[r] = "Page" /\ Finished(r)
       /\ props[r].params.value \in generateStaticParams) =>
      /\ pc[r] = "returned"
      /\ out[r] # NoValue /\ out[r].t = "element"
      /\ out[r].metadata = content[RequestedRoute(r)].metadata
      /\ out[r].metadata.title.t = "string"
      /\ Len(out[r].metadata.title.s) > 0

C4_Witness ==
  \E r \in Reqs :
    /\ kind[r] = "Page" /\ pc[r] = "returned"
    /\ props[r].params.value \in generateStaticParams
    /\ out[r].metadata.title = Str("What Are Hooks?")

\* C5: when no content file matches the requested path, Page and
\* generateMetadata never return a value: the call ends rejected with the
\* very not-found error importPage raised.
C5_NotFoundPropagates ==
  \A r \in Reqs :
    (kind[r] \in PageKinds /\ ~Registered(r)) =>
      /\ out[r] = NoValue
      /\ pc[r] # "returned"
      /\ pc[r] = "rejected" =>
            /\ err[r] = NotFound
            /\ err[r] = Last(importResults[r]).value

C5_Witness ==
  \E r, q \in Reqs :
    /\ kind[r] = "Page" /\ kind[q] = "generateMetadata"
    /\ ~Registered(r) /\ ~Registered(q)
    /\ pc[r] = "rejected" /\ pc[q] = "rejected"

\* C6: a RootLayout call has called getPageMap exactly once, also after
\* getPageMap failed; a call that failed that way ends rejected with the
\* failure and never has a document, then or later.
C6_PageMapFailurePropagates ==
  /\ [](\A r \in Reqs :
          kind[r] = "RootLayout" =>
            /\ pageMapCalls[r] = 1
            /\ pc[r] = "rejected" => (err[r] = PageMapFailure /\ out[r] = NoValue))
  /\ [][\A r \in Reqs :
          (kind[r] = "RootLayout" /\ pc[r] = "rejected") =>
            /\ pc'[r] = "rejected"
            /\ out'[r] = NoValue
            /\ pageMapCalls'[r] = pageMapCalls[r]]_vars

C6_Witness ==
  \E r \in Reqs :
    /\ kind[r] = "RootLayout" /\ pc[r] = "rejected"
    /\ err[r] = PageMapFailure /\ pageMapCalls[r] = 1

\* C7: a page call invokes importPage once, when its params have resolved;
\* the pending call is ended only by importPage settling, with that
\* outcome; and a finished call (returned or failed) does nothing more.
C7_SinglePass ==
  /\ [](\A r \in Reqs :
          kind[r] \in PageKinds =>
            /\ Len(importCalls[r]) = IF pc[r] = "awaitParams" THEN 0 ELSE 1
            /\ Len(importResults[r]) = IF Finished(r) THEN 1 ELSE 0)
  /\ [][\A r \in Reqs :
          /\ (pc[r] = "awaitImport" /\ pc'[r] # pc[r]) =>
                importResults'[r] = << ImportPage(importCalls[r][1]) >>
          /\ Finished(r) =>
                /\ pc'[r] = pc[r]
                /\ importCalls'[r] = importCalls[r]
                /\ importResults'[r] = importResults[r]]_vars

C7_Witness ==
  \E r, q \in Reqs :
    /\ kind[r] = "generateMetadata" /\ pc[r] = "rejected"
    /\ kind[q] = "Page" /\ pc[q] = "returned"
    /\ Len(importCalls[r]) = 1 /\ Len(importCalls[q]) = 1

\* what a call of function k with props pr yields when it runs alone:
\* its steps taken one after the other
SoloOutcome(k, pr) ==
  LET ps  == pr.params.value
      res == ImportPage(ImportArg(ps))
  IN  IF ~res.ok
        THEN [pc |-> "rejected", out |-> NoValue, err |-> res.value]
        ELSE [pc |-> "returned",
              out |-> IF k = "Page" THEN WrapperElement(res.value, pr, ps)
                      ELSE MetadataResult(res.value.metadata),
              err |-> NoValue]

\* the variables that belong to call r
Locals(r) ==
  << kind[r], props[r], params[r], out[r], err[r], importCalls[r],
     importResults[r], pageMapCalls[r] >>

\* C8: in every interleaving, a finished page call has exactly the outcome
\* (title and description, or table of contents, metadata and body) it has
\* when run alone, and a step of one call changes nothing of another call.
C8_RendersIndependent ==
  /\ [](\A r \in Reqs :
          (kind[r] \in PageKinds /\ Finished(r)) =>
            [pc |-> pc[r], out |-> out[r], err |-> err[r]]
              = SoloOutcome(kind[r], props[r]))
  /\ [][\A r \in Reqs : pc'[r] = pc[r] => Locals(r)' = Locals(r)]_vars

C8_Witness ==
  \E r, q \in Reqs :
    /\ r # q
    /\ kind[r] = "Page" /\ kind[q] = "Page"
    /\ RequestedRoute(r) # RequestedRoute(q)
    /\ pc[r] = "returned" /\ pc[q] = "awaitImport"

\* C9: once its params have resolved, a page call (Page or
\* generateMetadata) has handed importPage exactly the segment list the URL
\* captured, whatever the path: the list itself, or undefined for the root.
C9_PathPassedUnchanged ==
  \A r \in Reqs :
    (kind[r] \in PageKinds /\ pc[r] # "awaitParams") =>
      importCalls[r] = << CapturedPath(r) >>

C9_Witness ==
  \E r, q \in Reqs :
    /\ kind[r] = "Page" /\ kind[q] = "generateMetadata"
    /\ importCalls[r] = << Undefined >>
    /\ importCalls[q] = << Arr(<<"nope">>) >>

\* C10: Page gets its output only in the step in which its importPage call
\* fulfils, and the table of contents, the metadata and the body of that
\* output are those of that one result, the content file of its own path.
C10_CompositionFollowsResolution ==
  /\ [](\A r \in Reqs :
          (kind[r] = "Page" /\ out[r] # NoValue) =>
            /\ Len(importResults[r]) = 1
            /\ importResults[r][1].ok
            /\ importResults[r][1].value = content[RequestedRoute(r)]
            /\ out[r].type = Wrapper
            /\ out[r].toc = importResults[r][1].value.toc
            /\ out[r].metadata = importResults[r][1].value.metadata
            /\ out[r].children.type = importResults[r][1].value.default)
  /\ [][\A r \in Reqs :
          (kind[r] = "Page" /\ out'[r] # out[r]) =>
            /\ pc[r] = "awaitImport"
            /\ Len(importCalls[r]) = 1
            /\ Len(importResults'[r]) = 1 /\ importResults'[r][1].ok]_vars

C10_Witness ==
  \E r, q \in Reqs :
    /\ kind[r] = "Page" /\ kind[q] = "Page"
    /\ pc[r] = "returned" /\ pc[q] = "returned"
    /\ out[r].toc = TocOf(<<"useid">>)
    /\ out[q].toc = TocOf(<<"what-are-hooks">>)

\* C11: no step of Page, generateMetadata or RootLayout changes the page map
\* or a content file: at all times the page map is the one the framework
\* built, and every content file has the title, description and table of
\* contents it was supplied with.
C11_FrameworkValuesReadOnly ==
  /\ [][content' = content /\ pageMap' = pageMap]_vars
  /\ [](/\ pageMap = PageMapOf(content)
         /\ \A route \in DOMAIN content :
              /\ content[route].metadata.title = Str(TitleOf(route))
              /\ content[route].metadata.description \in Descriptions
              /\ content[route].toc = TocOf(route))

C11_Witness ==
  \E r, q \in Reqs :
    /\ kind[r] = "generateMetadata" /\ pc[r] = "returned"
    /\ kind[q] = "RootLayout" /\ pc[q] = "returned"
    /\ Len(pageMap) = 2

\* C12 as stated: whenever generateMetadata returns, the title and the
\* description it returns are both strings.
C12_TitleAndDescriptionStrings ==
  \A r \in Reqs :
    (kind[r] = "generateMetadata" /\ pc[r] = "returned") =>
      /\ out[r].title.t = "string"
      /\ out[r].description.t = "string"

\* C12 amended: whenever generateMetadata returns, the title is a string,
\* and the description is a string exactly when the content file exports
\* one; for a content file without a description it is undefined.
C12_TitleStringDescriptionAsExported ==
  \A r \in Reqs :
    (kind[r] = "generateMetadata" /\ pc[r] = "returned") =>
      /\ out[r].title.t = "string"
      /\ out[r].description.t \in {"string", "undefined"}
      /\ out[r].description.t = "string"
            <=> content[RequestedRoute(r)].metadata.description.t = "string"

C12_Witness ==
  \E r \in Reqs :
    /\ kind[r] = "generateMetadata" /\ pc[r] = "returned"
    /\ RequestedRoute(r) = <<"what-are-hooks">>
    /\ out[r].title.t = "string"
    /\ out[r].description.t = "undefined"

\* C13: a document RootLayout returns has the supplied children, unchanged,
\* as the children of its Layout and nowhere else, and the Layout's pageMap
\* is the resolved page map; the document appears only in the step in which
\* the one getPageMap call of the render fulfils.
C13_ChildrenInsideLayoutAfterPageMap ==
  /\ [](\A r \in Reqs :
          (kind[r] = "RootLayout" /\ out[r] # NoValue) =>
            LET layout == out[r].body.children
            IN  /\ pc[r] = "returned"
                /\ layout.type = "Layout"
                /\ layout.children = props[r].children
                /\ DOMAIN out[r].body = {"t", "type", "className", "children"}
                /\ layout.banner # props[r].children
                /\ layout.navbar # props[r].children
                /\ layout.footer # props[r].children
                /\ layout.pageMap = pageMap)
  /\ [][\A r \in Reqs :
          (kind'[r] = "RootLayout" /\ out'[r] # out[r]) =>
            (pc[r] = "awaitPageMap" /\ pageMapCalls[r] = 1)]_vars

C13_Witness ==
  \E r \in Reqs :
    /\ kind[r] = "RootLayout" /\ pc[r] = "returned"
    /\ props[r].children.t = "element"
    /\ out[r].body.children.children.metadata.title = Str("useId")
    /\ Len(out[r].body.children.pageMap) = 2

C15_HeadAndBodyAgree ==
  \A r, q \in Reqs :
    (/\ kind[r] = "generateMetadata" /\ kind[q] = "Page"
     /\ props[q] = props[r]
     /\ Finished(r) /\ Finished(q)) =>
      /\ pc[r] = pc[q]
      /\ err[r] = err[q]
      /\ pc[r] = "returned" =>
            /\ out[r].title =
                 Str(out[q].metadata.title.s
                       \o " | A Comprehensive Look at All React Hooks")
            /\ out[r].description = out[q].metadata.description

C15_Witness ==
  \E r, q \in Reqs :
    /\ kind[r] = "generateMetadata" /\ kind[q] = "Page"
    /\ props[q] = props[r]
    /\ pc[r] = "returned" /\ pc[q] = "returned"

\* C16: the footer built at module load never changes, and every document
\* RootLayout returns carries the load-time banner, navbar and footer and
\* the fixed docsRepositoryBase: the footer shows the year of module load
\* also when the calendar year has changed since.
C16_ChromeFixedAtLoad ==
  /\ [][footer' = footer]_vars
  /\ [](footer = FooterElement(0))
  /\ [](\A r \in Reqs :
          (kind[r] = "RootLayout" /\ pc[r] = "returned") =>
            LET layout == out[r].body.children
            IN  /\ layout.banner.storageKey = "1234567890"
                /\ layout.banner.children = "Get the offical eBook"
                /\ layout.navbar.logo = "A Comprehensive Look At All React Hooks"
                /\ layout.footer.year = 0
                /\ layout.footer.owner = "Thomas Sankara"
                /\ layout.docsRepositoryBase =
                     "https://github.com/sankthomas/a-comprehensive-look-at-all-react-hooks")
  /\ [](\A r, q \in Reqs :
          (/\ kind[r] = "RootLayout" /\ pc[r] = "returned"
           /\ kind[q] = "RootLayout" /\ pc[q] = "returned") =>
            [out[r].body.children EXCEPT !.children = Undefined]
              = [out[q].body.children EXCEPT !.children = Undefined])

C16_Witness ==
  \E r, q \in Reqs :
    /\ r # q
    /\ kind[r] = "RootLayout" /\ pc[r] = "returned"
    /\ kind[q] = "RootLayout" /\ pc[q] = "returned"
    /\ clockYear > 0
    /\ out[r].body.children.footer.year = 0

(* ====================================================================== *)
(* The code samples of the content pages: React components and hooks run  *)
(* in a browser.  A state setter queues an update (none when the value is *)
(* the current one), the queued update is rendered before the next timer  *)
(* callback or user event is handled, and a render commits the new state, *)
(* runs the cleanup of the effects whose dependencies changed and then    *)
(* those effects.                                                         *)
(* ====================================================================== *)

Num(n) == [t |-> "number", n |-> n]

NaN == [t |-> "nan"]

\* v <= 0: false when v is undefined or NaN
JsLessEqZero(v) == v.t = "number" /\ v.n <= 0

\* v - 1: NaN when v is undefined or NaN
JsMinusOne(v) == IF v.t = "number" THEN Num(v.n - 1) ELSE NaN

\* the content directory is of no concern to the samples
NoContent == [route \in {} |-> Undefined]

SampleInit == SiteLoaded(NoContent) /\ SamplesUnmounted

\* setState(v): an update is queued unless v is the current state
QueueUpdate(hook, current, v) ==
  IF v = current THEN updates ELSE Append(updates, [hook |-> hook, value |-> v])

\* clearTimeout(id)
ClearTimeout(pending, id) == { t \in pending : t.id # id }

(* ---------------- countdown timer: App with useState(60) -------------- *)

CountdownInitial == 60

\* mutation: the guard lets the countdown pass zero
CountdownSkips_BelowZeroOnly(s) == s.t = "number" /\ s.n < 0

\* if (seconds <= 0) return;
CountdownSkips(s) == JsLessEqZero(s)

\* the effect body run with `seconds` = s over the pending timeouts: the
\* timeouts afterwards and the `timeout` its cleanup holds (0: no cleanup)
CountdownEffect(s, pending) ==
  IF CountdownSkips(s)
    THEN [timeouts |-> pending, timeout |-> 0]
    ELSE [timeouts |-> pending \cup
                        {[id |-> nextTimeoutId, hook |-> "seconds",
                          sets |-> JsMinusOne(s)]},
          timeout |-> nextTimeoutId]

\* first render of App, then its effect
CountdownMount ==
  /\ mounted = "none"
  /\ mounted' = "App"
  /\ seconds' = Num(CountdownInitial)
  /\ LET e == CountdownEffect(Num(CountdownInitial), timeouts)
     IN  /\ timeouts' = e.timeouts
         /\ timeout' = e.timeout
         /\ nextTimeoutId' = IF e.timeout = 0 THEN nextTimeoutId
                             ELSE nextTimeoutId + 1
  /\ UNCHANGED << siteVars, storeVars, renderVars, fetchVars,
                  value, delay, debouncedValue, ref, updates,
                  calls, lastStart, observed >>

\* a timeout elapses: () => setSeconds(seconds - 1)
CountdownTimeoutFires ==
  /\ mounted = "App" /\ updates = <<>>
  /\ \E t \in timeouts :
        /\ timeouts' = timeouts \ {t}
        /\ updates' = QueueUpdate("seconds", seconds, t.sets)
  /\ UNCHANGED << siteVars, storeVars, renderVars, fetchVars,
                  mounted, seconds, timeout, value, delay,
                  debouncedValue, ref, nextTimeoutId, calls, lastStart,
                  observed >>

\* re-render with the queued state; the effect has no dependency array, so
\* its cleanup and then the effect run after every render
CountdownRender ==
  /\ mounted = "App" /\ updates # <<>>
  /\ seconds' = Last(updates).value
  /\ updates' = <<>>
  /\ LET cleaned == IF timeout = 0 THEN timeouts
                    ELSE ClearTimeout(timeouts, timeout)
         e == CountdownEffect(Last(updates).value, cleaned)
     IN  /\ timeouts' = e.timeouts
         /\ timeout' = e.timeout
         /\ nextTimeoutId' = IF e.timeout = 0 THEN nextTimeoutId
                             ELSE nextTimeoutId + 1
  /\ UNCHANGED << siteVars, storeVars, renderVars, fetchVars,
                  mounted, value, delay, debouncedValue, ref,
                  calls, lastStart, observed >>

CountdownNext ==
  \/ CountdownMount
  \/ CountdownTimeoutFires
  \/ CountdownRender

\* the browser runs a due timeout and React renders a queued update
CountdownSpec ==
  SampleInit /\ [][CountdownNext]_vars /\ WF_vars(CountdownNext)

\* C17: in the countdown sample seconds is always a number from 0 to 60 and
\* at most one timeout is pending; a firing timeout queues seconds - 1 and
\* seconds only ever changes by -1; the sample ends up, for good, at
\* seconds = 0 with no timeout pending and nothing queued.
C17_CountdownReachesZeroAndStops ==
  /\ [](mounted = "App" =>
          /\ seconds.t = "number"
          /\ 0 <= seconds.n /\ seconds.n <= 60
          /\ Cardinality(timeouts) <= 1)
  /\ [][((mounted = "App" /\ seconds' # seconds) =>
            seconds'.n = seconds.n - 1)
        /\
         ((mounted = "App" /\ timeouts' # timeouts
             /\ timeouts' \subseteq timeouts) =>
            updates' = << [hook |-> "seconds",
                           value |-> Num(seconds.n - 1)] >>)]_vars
  /\ <>[](/\ mounted = "App" /\ seconds = Num(0)
           /\ timeouts = {} /\ updates = <<>>)

C17_Witness ==
  /\ mounted = "App"
  /\ seconds = Num(0)
  /\ timeouts = {} /\ updates = <<>>
  /\ nextTimeoutId = 61

(* ------------------------- useTimer custom hook ----------------------- *)

\* startTimer(90) in the effect of the App that uses the hook
TimerStart == 90

\* if (seconds <= 0) return;
UseTimerSkips(s) == JsLessEqZero(s)

\* the effect body run with `seconds` = s over the pending timeouts
UseTimerEffect(s, pending) ==
  IF UseTimerSkips(s)
    THEN [timeouts |-> pending, timeout |-> 0]
    ELSE [timeouts |-> pending \cup
                        {[id |-> nextTimeoutId, hook |-> "seconds",
                          sets |-> JsMinusOne(s)]},
          timeout |-> nextTimeoutId]

PendingIds == { t.id : t \in timeouts }

\* first render of a component that calls useTimer(): useState() leaves
\* seconds undefined, then the effect runs
UseTimerMount ==
  /\ mounted = "none"
  /\ mounted' = "useTimer"
  /\ seconds' = Undefined
  /\ LET e == UseTimerEffect(Undefined, timeouts)
     IN  /\ timeouts' = e.timeouts
         /\ timeout' = e.timeout
         /\ nextTimeoutId' = IF e.timeout = 0 THEN nextTimeoutId
                             ELSE nextTimeoutId + 1
  /\ UNCHANGED << siteVars, storeVars, renderVars, fetchVars,
                  value, delay, debouncedValue, ref, updates,
                  calls, lastStart, observed >>

\* startTimer(n): setSeconds(n)
StartTimer(n) ==
  /\ mounted = "useTimer" /\ updates = <<>>
  /\ updates' = QueueUpdate("seconds", seconds, Num(n))
  /\ calls' = calls + 1
  /\ lastStart' = [n |-> n, pending |-> PendingIds,
                    rendered |-> Num(n) # seconds]
  /\ observed' = IF Num(n) = seconds THEN << seconds >> ELSE <<>>
  /\ UNCHANGED << siteVars, storeVars, renderVars, fetchVars,
                  mounted, seconds, timeout, value, delay,
                  debouncedValue, ref, timeouts, nextTimeoutId >>

\* the App of the sample: its effect, run right after the hook's effect at
\* mount, calls startTimer(90)
UseTimerAppEffect ==
  /\ calls = 0 /\ seconds = Undefined /\ nextTimeoutId = 2
  /\ timeouts # {}
  /\ StartTimer(TimerStart)

\* a user of the hook calls startTimer with a number from one up
UseTimerUserStarts ==
  /\ calls < MaxCalls
  /\ \E n \in 1..MaxStart : StartTimer(n)

\* a timeout elapses: () => setSeconds(seconds - 1)
UseTimerTimeoutFires ==
  /\ mounted = "useTimer" /\ updates = <<>>
  /\ \E t \in timeouts :
        /\ timeouts' = timeouts \ {t}
        /\ updates' = QueueUpdate("seconds", seconds, t.sets)
  /\ UNCHANGED << siteVars, storeVars, renderVars, fetchVars,
                  mounted, seconds, timeout, value, delay,
                  debouncedValue, ref, nextTimeoutId, calls, lastStart,
                  observed >>

\* mutation: the effect returns no cleanup function
UseTimerRender_NoCleanup ==
  /\ mounted = "useTimer" /\ updates # <<>>
  /\ seconds' = Last(updates).value
  /\ updates' = <<>>
  /\ LET e == UseTimerEffect(Last(updates).value, timeouts)
     IN  /\ timeouts' = e.timeouts
         /\ timeout' = e.timeout
         /\ nextTimeoutId' = IF e.timeout = 0 THEN nextTimeoutId
                             ELSE nextTimeoutId + 1
  /\ observed' = IF lastStart = NoValue THEN observed
                 ELSE Append(observed, Last(updates).value)
  /\ UNCHANGED << siteVars, storeVars, renderVars, fetchVars,
                  mounted, value, delay, debouncedValue, ref,
                  calls, lastStart >>

\* re-render with the queued state: seconds, the effect's one dependency,
\* has changed, so the cleanup and then the effect run
UseTimerRender ==
  /\ mounted = "useTimer" /\ updates # <<>>
  /\ seconds' = Last(updates).value
  /\ updates' = <<>>
  /\ LET cleaned == IF timeout = 0 THEN timeouts
                    ELSE ClearTimeout(timeouts, timeout)
         e == UseTimerEffect(Last(updates).value, cleaned)
     IN  /\ timeouts' = e.timeouts
         /\ timeout' = e.timeout
         /\ nextTimeoutId' = IF e.timeout = 0 THEN nextTimeoutId
                             ELSE nextTimeoutId + 1
  /\ observed' = IF lastStart = NoValue THEN observed
                 ELSE Append(observed, Last(updates).value)
  /\ UNCHANGED << siteVars, storeVars, renderVars, fetchVars,
                  mounted, value, delay, debouncedValue, ref,
                  calls, lastStart >>

UseTimerNext ==
  \/ UseTimerMount
  \/ UseTimerAppEffect
  \/ UseTimerUserStarts
  \/ UseTimerTimeoutFires
  \/ UseTimerRender

\* the browser runs a due timeout and React renders a queued update; the
\* user of the hook is free to call startTimer or not
UseTimerSpec ==
  /\ SampleInit
  /\ [][UseTimerNext]_vars
  /\ WF_vars(UseTimerTimeoutFires)
  /\ WF_vars(UseTimerRender)

\* the values rendered since the last startTimer(n) are n, n-1, ... in order
CountsDownFromStart ==
  lastStart # NoValue =>
    /\ Len(observed) <= lastStart.n + 1
    /\ \A i \in 1..Len(observed) : observed[i] = Num(lastStart.n - i + 1)

\* at zero the countdown has stopped: no timeout is pending, and nothing is
\* queued but by a new startTimer call
StoppedAtZero ==
  seconds = Num(0) => (timeouts = {} /\ (updates = <<>> \/ observed = <<>>))

\* C18 as stated: the values rendered after startTimer(n) are n, n-1, ..., 0
\* in order, at 0 nothing is pending, and once a startTimer call has been
\* handled no timeout that was pending when it was made is still pending.
C18_StartTimerAlwaysRestarts ==
  /\ CountsDownFromStart
  /\ StoppedAtZero
  /\ (lastStart # NoValue /\ updates = <<>>) =>
        lastStart.pending \cap PendingIds = {}

\* C18 amended: the values rendered after startTimer(n) are n, n-1, ..., 0
\* in order and at 0 nothing is pending; a handled startTimer(m) with m
\* other than the current seconds has cancelled every timeout that was
\* pending at the call, while startTimer(m) with m equal to the current
\* seconds changes nothing: the pending timeout is kept until it fires and
\* the countdown goes on from m; every countdown started reaches 0.
C18_StartTimerRestartsOnNewValue ==
  /\ [](CountsDownFromStart /\ StoppedAtZero)
  /\ []((lastStart # NoValue /\ updates = <<>>) =>
          IF lastStart.rendered
            THEN lastStart.pending \cap PendingIds = {}
            ELSE observed = << Num(lastStart.n) >> =>
                   (lastStart.pending = PendingIds /\ seconds = Num(lastStart.n)))
  /\ [](lastStart # NoValue => <>(seconds = Num(0) /\ timeouts = {}))

C18_Witness ==
  /\ lastStart # NoValue /\ lastStart.rendered
  /\ lastStart.pending # {}
  /\ calls = 2
  /\ observed = << Num(3), Num(2), Num(1), Num(0) >>

C18_WitnessSameValue ==
  /\ lastStart # NoValue /\ ~lastStart.rendered
  /\ observed = << Num(2), Num(1), Num(0) >>

\* C19 as stated: as long as startTimer has not been called, no timeout is
\* scheduled, no update is queued and seconds is still unset.
C19_NothingBeforeStartTimer ==
  (mounted = "useTimer" /\ calls = 0) =>
    /\ timeouts = {}
    /\ updates = <<>>
    /\ seconds = Undefined

(* ------------------------ useDebounce custom hook --------------------- *)

\* useDebounce(value, 3000) in the App that uses the hook
DebounceDelay == 3000

\* what the user types into the input, and the delays a caller passes
Values == {"", "a", "ab", "abc"}
Delays == {DebounceDelay, 2 * DebounceDelay}

\* the effect body run with `value` = v and `delay` = d over the pending
\* timeouts: ref.current = setTimeout(() => setDebouncedValue(v), d)
DebounceEffect(v, d, pending) ==
  pending \cup {[id |-> nextTimeoutId, hook |-> "debouncedValue",
                 sets |-> v, delay |-> d]}

\* first render of the App: value is "", the hook's state is "", then the
\* effect runs
DebounceMount ==
  /\ mounted = "none"
  /\ mounted' = "useDebounce"
  /\ value' = ""
  /\ delay' = DebounceDelay
  /\ debouncedValue' = ""
  /\ timeouts' = DebounceEffect("", DebounceDelay, timeouts)
  /\ ref' = nextTimeoutId
  /\ nextTimeoutId' = nextTimeoutId + 1
  /\ UNCHANGED << siteVars, storeVars, renderVars, fetchVars,
                  seconds, timeout, updates, calls, lastStart,
                  observed >>

\* onChange of the input: setValue(e.target.value)
DebounceChangeValue ==
  /\ mounted = "useDebounce" /\ updates = <<>>
  /\ calls < MaxCalls
  /\ \E v \in Values \ {value} :
        updates' = QueueUpdate("value", Str(value), Str(v))
  /\ calls' = calls + 1
  /\ UNCHANGED << siteVars, storeVars, renderVars, fetchVars,
                  mounted, seconds, timeout, value, delay,
                  debouncedValue, ref, timeouts, nextTimeoutId, lastStart,
                  observed >>

\* the caller of the hook is to render with another delay
DebounceChangeDelay ==
  /\ mounted = "useDebounce" /\ updates = <<>>
  /\ calls < MaxCalls
  /\ \E d \in Delays : updates' = QueueUpdate("delay", Num(delay), Num(d))
  /\ calls' = calls + 1
  /\ UNCHANGED << siteVars, storeVars, renderVars, fetchVars,
                  mounted, seconds, timeout, value, delay,
                  debouncedValue, ref, timeouts, nextTimeoutId, lastStart,
                  observed >>

\* a timeout elapses: () => setDebouncedValue(value)
DebounceTimeoutFires ==
  /\ mounted = "useDebounce" /\ updates = <<>>
  /\ \E t \in timeouts :
        /\ timeouts' = timeouts \ {t}
        /\ updates' = QueueUpdate("debouncedValue", Str(debouncedValue),
                               Str(t.sets))
  /\ UNCHANGED << siteVars, storeVars, renderVars, fetchVars,
                  mounted, seconds, timeout, value, delay,
                  debouncedValue, ref, nextTimeoutId, calls, lastStart,
                  observed >>

\* mutation: the effect returns no cleanup function
DebounceRender_NoCleanup ==
  /\ mounted = "useDebounce" /\ updates # <<>>
  /\ LET u == Last(updates)
         v == IF u.hook = "value" THEN u.value.s ELSE value
         d == IF u.hook = "delay" THEN u.value.n ELSE delay
     IN  /\ value' = v
         /\ delay' = d
         /\ debouncedValue' = IF u.hook = "debouncedValue" THEN u.value.s
                              ELSE debouncedValue
         /\ IF v # value \/ d # delay
              THEN /\ timeouts' = DebounceEffect(v, d, timeouts)
                   /\ ref' = nextTimeoutId
                   /\ nextTimeoutId' = nextTimeoutId + 1
              ELSE UNCHANGED << timeouts, ref, nextTimeoutId >>
  /\ updates' = <<>>
  /\ UNCHANGED << siteVars, storeVars, renderVars, fetchVars,
                  mounted, seconds, timeout, calls, lastStart,
                  observed >>

\* re-render with the queued state: when value or delay, the effect's
\* dependencies, has changed, the cleanup clears the timeout ref.current
\* names and the effect sets a new one; a new debouncedValue alone leaves
\* the effect alone
DebounceRender ==
  /\ mounted = "useDebounce" /\ updates # <<>>
  /\ LET u == Last(updates)
         v == IF u.hook = "value" THEN u.value.s ELSE value
         d == IF u.hook = "delay" THEN u.value.n ELSE delay
     IN  /\ value' = v
         /\ delay' = d
         /\ debouncedValue' = IF u.hook = "debouncedValue" THEN u.value.s
                              ELSE debouncedValue
         /\ IF v # value \/ d # delay
              THEN /\ timeouts' = DebounceEffect(v, d,
                                                 ClearTimeout(timeouts, ref))
                   /\ ref' = nextTimeoutId
                   /\ nextTimeoutId' = nextTimeoutId + 1
              ELSE UNCHANGED << timeouts, ref, nextTimeoutId >>
  /\ updates' = <<>>
  /\ UNCHANGED << siteVars, storeVars, renderVars, fetchVars,
                  mounted, seconds, timeout, calls, lastStart,
                  observed >>

DebounceNext ==
  \/ DebounceMount
  \/ DebounceChangeValue
  \/ DebounceChangeDelay
  \/ DebounceTimeoutFires
  \/ DebounceRender

\* the browser runs a due timeout and React renders a queued update; the
\* user is free to type or not
DebounceSpec ==
  /\ SampleInit
  /\ [][DebounceNext]_vars
  /\ WF_vars(DebounceTimeoutFires)
  /\ WF_vars(DebounceRender)

\* a step in which a timeout elapses
DebounceFired ==
  /\ mounted = "useDebounce"
  /\ value' = value /\ delay' = delay
  /\ timeouts' # timeouts

Callbacks == 1..NumCallbacks

\* the elements of a sequence
Range(seq) == { seq[i] : i \in 1..Len(seq) }

\* Set.prototype.add: an element the Set holds is not added again
SetAdd(set, e) == IF e \in Range(set) THEN set ELSE Append(set, e)

\* Set.prototype.delete
SetDelete(set, e) == SelectSeq(set, LAMBDA x : x # e)

\* getSnapshot: () => count
getSnapshot == count

\* the callbacks of the subscribe calls whose unsubscribe function has not
\* run
Subscribed ==
  { subscriptions[i].callback :
      i \in { j \in 1..Len(subscriptions) : ~subscriptions[j].unsubscribed } }

\* the callbacks of the subscribe calls whose unsubscribe function has run
Unsubscribed ==
  { subscriptions[i].callback :
      i \in { j \in 1..Len(subscriptions) : subscriptions[j].unsubscribed } }

\* every subscribe call so far has passed a callback of its own
CallbacksDistinct ==
  \A i, j \in 1..Len(subscriptions) :
     subscriptions[i].callback = subscriptions[j].callback => i = j

\* subscribe(callback): listeners.add(callback), and the function returned
\* is kept by the caller
subscribe ==
  /\ Len(subscriptions) < MaxSubscribes
  /\ \E callback \in Callbacks :
        /\ listeners' = SetAdd(listeners, callback)
        /\ subscriptions' = Append(subscriptions,
                                   [callback |-> callback,
                                    unsubscribed |-> FALSE])
  /\ UNCHANGED << siteVars, renderVars, fetchVars, mounted, seconds, timeout,
                  value, delay, debouncedValue, ref, timeouts, nextTimeoutId,
                  updates, calls, lastStart, observed, count, invoked,
                  increments, decrements >>

\* a function that subscribe returned is called:
\* () => listeners.delete(callback)
unsubscribe ==
  /\ \E i \in 1..Len(subscriptions) :
        /\ listeners' = SetDelete(listeners, subscriptions[i].callback)
        /\ subscriptions' =
             [subscriptions EXCEPT ![i].unsubscribed = TRUE]
  /\ UNCHANGED << siteVars, renderVars, fetchVars, mounted, seconds, timeout,
                  value, delay, debouncedValue, ref, timeouts, nextTimeoutId,
                  updates, calls, lastStart, observed, count, invoked,
                  increments, decrements >>

\* mutation: the listeners are called before the count changes
Notify_BeforeChange(newCount) ==
  [t |-> "change", callbacks |-> listeners, count |-> count,
   subscribed |-> Subscribed, unsubscribed |-> Unsubscribed,
   distinct |-> CallbacksDistinct]

\* listeners.forEach((cb) => cb()) once the count is newCount: the callbacks
\* called in order and the count each of them finds, with the subscribe
\* calls as they stand at the time
Notify(newCount) ==
  [t |-> "change", callbacks |-> listeners, count |-> newCount,
   subscribed |-> Subscribed, unsubscribed |-> Unsubscribed,
   distinct |-> CallbacksDistinct]

\* increment: count++, then every listener is called
increment ==
  /\ increments + decrements < MaxChanges
  /\ count' = count + 1
  /\ invoked' = Notify(count + 1)
  /\ increments' = increments + 1
  /\ UNCHANGED << siteVars, renderVars, fetchVars, mounted, seconds, timeout,
                  value, delay, debouncedValue, ref, timeouts, nextTimeoutId,
                  updates, calls, lastStart, observed, listeners,
                  subscriptions, decrements >>

\* decrement: count--, then every listener is called
decrement ==
  /\ increments + decrements < MaxChanges
  /\ count' = count - 1
  /\ invoked' = Notify(count - 1)
  /\ decrements' = decrements + 1
  /\ UNCHANGED << siteVars, renderVars, fetchVars, mounted, seconds, timeout,
                  value, delay, debouncedValue, ref, timeouts, nextTimeoutId,
                  updates, calls, lastStart, observed, listeners,
                  subscriptions, increments >>

StoreNext ==
  \/ subscribe
  \/ unsubscribe
  \/ increment
  \/ decrement

StoreSpec == SampleInit /\ [][StoreNext]_vars

\* a sequence that holds no element twice
NoDuplicates(seq) == Cardinality(Range(seq)) = Len(seq)

\* C21 as stated: getSnapshot is the number of increments minus the number
\* of decrements; the last increment or decrement has invoked every callback
\* that was subscribed and not unsubscribed at the time exactly once, each
\* finding the changed count, and no callback whose subscriptions had all
\* been unsubscribed.
C21_EverySubscribedCallbackInvoked ==
  /\ getSnapshot = increments - decrements
  /\ invoked # NoValue =>
       /\ NoDuplicates(invoked.callbacks)
       /\ Range(invoked.callbacks) = invoked.subscribed
       /\ invoked.count = count

\* C21, amended: getSnapshot is the number of increments minus the number of
\* decrements; each increment or decrement invokes every callback the Set
\* listeners holds exactly once, after the count has changed, and each of
\* them has a subscribe call whose unsubscribe function has not run. When
\* every subscribe call passes a callback of its own, these are exactly the
\* callbacks whose unsubscribe function has not run, and none whose
\* unsubscribe function has run. A callback passed to subscribe more than
\* once is held once, and any of its unsubscribe functions removes it.
C21_ListenersInvokedOnceAfterChange ==
  /\ [](getSnapshot = increments - decrements)
  /\ [](/\ NoDuplicates(listeners)
        /\ Range(listeners) \subseteq Subscribed
        /\ CallbacksDistinct => Range(listeners) = Subscribed)
  /\ [](invoked # NoValue =>
          /\ NoDuplicates(invoked.callbacks)
          /\ invoked.count = count
          /\ Range(invoked.callbacks) \subseteq invoked.subscribed
          /\ invoked.distinct =>
               /\ Range(invoked.callbacks) = invoked.subscribed
               /\ Range(invoked.callbacks) \cap invoked.unsubscribed = {})
  /\ [][ (increments' # increments \/ decrements' # decrements) =>
           (invoked'.callbacks = listeners /\ invoked'.count = count') ]_vars
  /\ [][ \A i \in 1..Len(subscriptions) :
           (~subscriptions[i].unsubscribed /\ subscriptions'[i].unsubscribed)
             => subscriptions[i].callback \notin Range(listeners') ]_vars

\* two callbacks were subscribed, one was unsubscribed, and the second
\* change after that has invoked the other one alone
C21_Witness ==
  /\ invoked # NoValue
  /\ invoked.distinct
  /\ invoked.unsubscribed = {1}
  /\ invoked.callbacks = << 2 >>
  /\ increments = 1 /\ decrements = 2

\* a callback subscribed twice and unsubscribed once is not invoked
C21_WitnessSharedCallback ==
  /\ invoked # NoValue
  /\ ~invoked.distinct
  /\ invoked.subscribed = {1}
  /\ invoked.callbacks = <<>>

(* ---------------------------- render counters ------------------------- *)

\* the updates queued for the state hook
UpdatesOf(hook) == SelectSeq(updates, LAMBDA u : u.hook = hook)

\* the state `name` after the queued setName calls
NameAfterUpdates ==
  IF UpdatesOf("name") = <<>> THEN name ELSE Last(UpdatesOf("name")).value.s

\* mutation: the effect has an empty dependency array, it runs at mount only
CounterStateEffect_MountOnly(queue) ==
  IF mounted = "none"
    THEN Append(queue, [hook |-> "count", add |-> 1])
    ELSE queue

\* useState version, the effect run after every render:
\* setCount((previousCount) => previousCount + 1)
CounterStateEffect(queue) == Append(queue, [hook |-> "count", add |-> 1])

\* useState version: first render of App, then its effect
CounterStateMount ==
  /\ mounted = "none"
  /\ mounted' = "counterState"
  /\ name' = ""
  /\ count' = 0
  /\ renders' = 1
  /\ updates' = CounterStateEffect(<<>>)
  /\ UNCHANGED << siteVars, fetchVars, seconds, timeout, value, delay,
                  debouncedValue, ref, timeouts, nextTimeoutId, calls,
                  lastStart, observed, listeners, subscriptions, invoked,
                  increments, decrements >>

\* useState version: re-render with the queued updates, then the effect
CounterStateRender ==
  /\ mounted = "counterState" /\ updates # <<>>
  /\ renders < MaxRenders
  /\ name' = NameAfterUpdates
  /\ count' = count + Len(UpdatesOf("count"))
  /\ renders' = renders + 1
  /\ updates' = CounterStateEffect(<<>>)
  /\ UNCHANGED << siteVars, fetchVars, mounted, seconds, timeout, value,
                  delay, debouncedValue, ref, timeouts, nextTimeoutId, calls,
                  lastStart, observed, listeners, subscriptions, invoked,
                  increments, decrements >>

\* useRef version: first render of App, then its effect,
\* count.current = count.current + 1
CounterRefMount ==
  /\ mounted = "none"
  /\ mounted' = "counterRef"
  /\ name' = ""
  /\ count' = 0 + 1
  /\ renders' = 1
  /\ UNCHANGED << siteVars, fetchVars, seconds, timeout, value, delay,
                  debouncedValue, ref, timeouts, nextTimeoutId, updates,
                  calls, lastStart, observed, listeners, subscriptions,
                  invoked, increments, decrements >>

\* useRef version: re-render with the queued updates, then the effect
CounterRefRender ==
  /\ mounted = "counterRef" /\ updates # <<>>
  /\ name' = NameAfterUpdates
  /\ count' = count + 1
  /\ renders' = renders + 1
  /\ updates' = <<>>
  /\ UNCHANGED << siteVars, fetchVars, mounted, seconds, timeout, value,
                  delay, debouncedValue, ref, timeouts, nextTimeoutId, calls,
                  lastStart, observed, listeners, subscriptions, invoked,
                  increments, decrements >>

\* onChange of the input, in either version: setName(e.target.value); the
\* input shows the rendered name, so the event comes with another value
CounterTypes ==
  /\ mounted \in {"counterState", "counterRef"}
  /\ calls < MaxCalls
  /\ UpdatesOf("name") = <<>>
  /\ \E v \in Values \ {name} :
        updates' = Append(updates, [hook |-> "name", value |-> Str(v)])
  /\ calls' = calls + 1
  /\ UNCHANGED << siteVars, storeVars, fetchVars, mounted, seconds, timeout,
                  value, delay, debouncedValue, ref, timeouts, nextTimeoutId,
                  lastStart, observed, name, renders >>

CounterNext ==
  \/ CounterStateMount
  \/ CounterStateRender
  \/ CounterRefMount
  \/ CounterRefRender
  \/ CounterTypes

\* React renders a queued update; the user is free to type or not
CounterSpec ==
  /\ SampleInit
  /\ [][CounterNext]_vars
  /\ WF_vars(CounterStateRender)
  /\ WF_vars(CounterRefRender)

\* no update is queued: nothing is left to render
Quiescent == updates = <<>>

C22_WitnessRef ==
  /\ mounted = "counterRef"
  /\ Quiescent
  /\ calls = 2
  /\ count = 3

(* ----------------------------- fetch samples -------------------------- *)

Null == [t |-> "null"]

\* the endpoint both samples fetch
Url == "https://restcountries.com/v3.1/all"

\* what response.json() may fulfil with
Responses == { Arr(<<>>), Arr(<< "Kenya" >>), Arr(<< "Kenya", "Peru" >>) }

\* the initial state: useState([]) in App, useState(null) in useFetch
InitialData(sample) ==
  IF sample = "fetchCountries" THEN Arr(<<>>) ELSE Null

\* the effect body at mount number m: the async function is called and runs
\* up to its first await, fetch(url) is issued
FetchEffect(reqs, m) ==
  Append(reqs, [url |-> Url, mount |-> m, stage |-> "sent"])

\* first render of the component, then its effect
FetchMount ==
  /\ mounted = "none"
  /\ mounts < MaxMounts
  /\ \E sample \in {"fetchCountries", "useFetch"} :
        /\ mounted' = sample
        /\ data' = InitialData(sample)
  /\ mounts' = mounts + 1
  /\ renders' = 1
  /\ requests' = FetchEffect(requests, mounts + 1)
  /\ UNCHANGED << siteVars, storeVars, seconds, timeout, value, delay,
                  debouncedValue, ref, timeouts, nextTimeoutId, updates,
                  calls, lastStart, observed, name >>

\* await fetch(url) fulfils with a response
FetchFulfils ==
  /\ \E i \in 1..Len(requests) :
        /\ requests[i].stage = "sent"
        /\ requests' = [requests EXCEPT ![i].stage = "response"]
  /\ UNCHANGED << siteVars, storeVars, mounted, seconds, timeout, value,
                  delay, debouncedValue, ref, timeouts, nextTimeoutId,
                  updates, calls, lastStart, observed, name, renders, data,
                  mounts >>

\* fetch(url) or response.json() rejects: the async function ends there
FetchFails ==
  /\ \E i \in 1..Len(requests) :
        /\ requests[i].stage \in {"sent", "response"}
        /\ requests' = [requests EXCEPT ![i].stage = "failed"]
  /\ UNCHANGED << siteVars, storeVars, mounted, seconds, timeout, value,
                  delay, debouncedValue, ref, timeouts, nextTimeoutId,
                  updates, calls, lastStart, observed, name, renders, data,
                  mounts >>

\* await response.json() fulfils and the state setter is called with the
\* data, a new array each time; the setter of a component that has been
\* unmounted since queues nothing
FetchStores ==
  /\ \E i \in 1..Len(requests) :
        /\ requests[i].stage = "response"
        /\ requests' = [requests EXCEPT ![i].stage = "stored"]
        /\ \E body \in Responses :
              updates' = IF mounted # "none" /\ requests[i].mount = mounts
                           THEN Append(updates,
                                       [hook |-> "data", value |-> body])
                           ELSE updates
  /\ UNCHANGED << siteVars, storeVars, mounted, seconds, timeout, value,
                  delay, debouncedValue, ref, timeouts, nextTimeoutId, calls,
                  lastStart, observed, name, renders, data, mounts >>

\* mutation: the effect has no dependency array, it runs after every render
FetchRender_NoDependencyArray ==
  /\ mounted \in {"fetchCountries", "useFetch"} /\ updates # <<>>
  /\ data' = Last(updates).value
  /\ updates' = <<>>
  /\ renders' = renders + 1
  /\ requests' = FetchEffect(requests, mounts)
  /\ UNCHANGED << siteVars, storeVars, mounted, seconds, timeout, value,
                  delay, debouncedValue, ref, timeouts, nextTimeoutId, calls,
                  lastStart, observed, name, mounts >>

\* re-render with the stored response: the dependency array is empty, the
\* effect does not run
FetchRender ==
  /\ mounted \in {"fetchCountries", "useFetch"} /\ updates # <<>>
  /\ data' = Last(updates).value
  /\ updates' = <<>>
  /\ renders' = renders + 1
  /\ UNCHANGED << siteVars, storeVars, mounted, seconds, timeout, value,
                  delay, debouncedValue, ref, timeouts, nextTimeoutId, calls,
                  lastStart, observed, name, requests, mounts >>

\* re-render for a reason of the parent's: the state is kept, the effect
\* does not run
FetchParentRenders ==
  /\ mounted \in {"fetchCountries", "useFetch"} /\ updates = <<>>
  /\ calls < MaxCalls
  /\ calls' = calls + 1
  /\ renders' = renders + 1
  /\ UNCHANGED << siteVars, storeVars, mounted, seconds, timeout, value,
                  delay, debouncedValue, ref, timeouts, nextTimeoutId,
                  updates, lastStart, observed, name, data, requests,
                  mounts >>

\* the component is unmounted: its state and queued updates go, the effect
\* has no cleanup, a request in flight goes on
FetchUnmount ==
  /\ mounted \in {"fetchCountries", "useFetch"}
  /\ mounted' = "none"
  /\ data' = Undefined
  /\ updates' = <<>>
  /\ renders' = 0
  /\ UNCHANGED << siteVars, storeVars, seconds, timeout, value, delay,
                  debouncedValue, ref, timeouts, nextTimeoutId, calls,
                  lastStart, observed, name, requests, mounts >>

FetchNext ==
  \/ FetchMount
  \/ FetchFulfils
  \/ FetchFails
  \/ FetchStores
  \/ FetchRender
  \/ FetchParentRenders
  \/ FetchUnmount

FetchSpec == SampleInit /\ [][FetchNext]_vars

\* C23: the requests issued are one per mount, each a GET of the endpoint; a
\* request is issued in the step that mounts the component, with its first
\* render, and in no other; a re-render, the one that stores the response
\* included, leaves the requests as they are.
C23_OneRequestPerMount ==
  /\ [](/\ Len(requests) = mounts
        /\ \A i \in 1..Len(requests) :
              requests[i].mount = i /\ requests[i].url = Url)
  /\ [][ Len(requests') # Len(requests) =>
           ( /\ mounted = "none" /\ mounted' # "none"
             /\ renders' = 1
             /\ Len(requests') = Len(requests) + 1 ) ]_vars
  /\ [][ (mounted' = mounted /\ renders' # renders) =>
           Len(requests') = Len(requests) ]_vars

\* mounted a second time, the response of this mount stored and rendered,
\* and rendered twice more for the parent: still one request per mount
C23_Witness ==
  /\ mounted = "useFetch"
  /\ mounts = 2
  /\ renders = 4
  /\ data = Arr(<< "Kenya" >>)
  /\ Len(requests) = 2
  /\ requests[2].stage = "stored"

====
